---- MODULE Spec2Model ----
(***************************************************************************)
(* A model of the borg chat bot: the Dictionary (sentences and the word    *)
(* index, src/src/dictionary.rs) and the Borg decision engine              *)
(* (src/src/borg.rs, src/src/pattern.rs, src/src/config.rs).               *)
(*                                                                         *)
(* Strings are TLA+ strings; a character is a string of length one.        *)
(* Sentence positions are 0-based as in the code (Vec<usize>), so the      *)
(* sentence at position y is sentences[y + 1].                             *)
(***************************************************************************)
EXTENDS Integers, Sequences, FiniteSets, TLC

VARIABLES
    sentences,      \* Dictionary.sentences : Vec<String>
    indices,        \* Dictionary.indices : HashMap<String, Vec<usize>>
    bsearch,        \* which slice::binary_search the toolchain links
    rebuilt,        \* history: rebuild_indices() has been called
    behavior,       \* Borg.behavior : MainBehavior
    op,             \* the last operation called
    arg,            \* its argument (a line), for the Dictionary
    call,           \* its arguments, for the Borg
    ret,            \* what it returned
    panicked,       \* it panicked instead of returning
    draws,          \* the values it took from Borg.rng, in order
    platform_config, \* telegram::Context.platform_config : TelegramPlatform
    resolved,       \* what the nine accessors of the last resolver returned
    pc,             \* where each running telegram::handle is
    msg,            \* the Message each handle was called with
    response,       \* the local `response` of each handle
    context_lock,   \* the handlers that hold the Mutex<Context>
    borg_lock,      \* the handlers that hold the Mutex<Borg>
    respond_body,   \* the body of Dictionary::respond_to in the build
    startup         \* where main is, and what it has done

vars == <<sentences, indices, bsearch, rebuilt, behavior, op, arg, call, ret,
          panicked, draws, platform_config, resolved, pc, msg, response,
          context_lock, borg_lock, respond_body, startup>>

dict_vars == <<sentences, indices, bsearch, rebuilt>>

platform_vars == <<platform_config, resolved>>

handle_vars == <<pc, msg, response, context_lock, borg_lock, respond_body>>

-----------------------------------------------------------------------------
(* Bounds of the model *)

\* learn is not called once the dictionary holds this many sentences
MaxSentences == 4

\* number of sentences of a dictionary read from disk
MaxLoaded == 3

\* the lines the dictionary is taught
Lines == {"Hello world! I love pizza.", "I love cake.", "B. a a!", "a a!", "?!"}

\* the words whose sentences are looked up
Words == {"a", "love", "zzz"}

\* the lines the dictionary is asked to respond to
Questions == {"Do you love cake?", "zzz"}

\* the sentences of a dictionary file read from disk
LoadedSentences == {"B c.", "a b!", "b c.", "?!"}

-----------------------------------------------------------------------------
(* Characters and strings *)

Upper == "ABCDEFGHIJKLMNOPQRSTUVWXYZ"
Lower == "abcdefghijklmnopqrstuvwxyz"

\* the characters of the model in the order of their byte values
Ascii == " !,.:?" \o Upper \o Lower

Char(s, i) == SubSeq(s, i, i)

Rest(s) == SubSeq(s, 2, Len(s))

Range(f) == {f[i] : i \in DOMAIN f}

AsciiChars == {Char(Ascii, i) : i \in 1..Len(Ascii)}

\* the rank of each character among the bytes
OrdTable == [c \in AsciiChars |-> CHOOSE i \in 1..Len(Ascii) : Char(Ascii, i) = c]

Ord(c) == OrdTable[c]

\* char::to_lowercase on the characters of the model
LowerTable ==
    [c \in AsciiChars |->
        IF \E i \in 1..Len(Upper) : Char(Upper, i) = c
        THEN Char(Lower, CHOOSE i \in 1..Len(Upper) : Char(Upper, i) = c)
        ELSE c]

lower_char(c) == LowerTable[c]

\* str::to_lowercase
RECURSIVE to_lowercase(_)
to_lowercase(s) ==
    IF s = "" THEN "" ELSE lower_char(Char(s, 1)) \o to_lowercase(Rest(s))

\* Ord::cmp on strings: lexicographic on the bytes
RECURSIVE cmp(_, _)
cmp(a, b) ==
    IF a = "" /\ b = "" THEN "Equal"
    ELSE IF a = "" THEN "Less"
    ELSE IF b = "" THEN "Greater"
    ELSE IF Ord(Char(a, 1)) < Ord(Char(b, 1)) THEN "Less"
    ELSE IF Ord(Char(a, 1)) > Ord(Char(b, 1)) THEN "Greater"
    ELSE cmp(Rest(a), Rest(b))

\* \s of the regular expressions
IsSpace(c) == c = " "

\* [.!?] of split_sentences
IsTerminator(c) == c \in {".", "!", "?"}

\* [,.!?:\s] of split_words
IsWordSeparator(c) == c \in {",", ".", "!", "?", ":"} \/ IsSpace(c)

\* the first position at or after i of s that holds no whitespace
RECURSIVE skip_spaces(_, _)
skip_spaces(s, i) ==
    IF i <= Len(s) /\ IsSpace(Char(s, i)) THEN skip_spaces(s, i + 1) ELSE i

\* the first position at or after i of s that holds no word separator
RECURSIVE skip_separators(_, _)
skip_separators(s, i) ==
    IF i <= Len(s) /\ IsWordSeparator(Char(s, i)) THEN skip_separators(s, i + 1) ELSE i

\* Regex::split followed by filter(!is_empty): the piece is kept when non-empty
Piece(s, from, to) == IF to >= from THEN <<SubSeq(s, from, to)>> ELSE <<>>

\* the pieces of s between the matches of (?<=[.!?]+)\s+ : a match is a
\* maximal run of whitespace that directly follows a terminator
RECURSIVE split_sentences_from(_, _, _)
split_sentences_from(s, start, i) ==
    IF i > Len(s) THEN Piece(s, start, Len(s))
    ELSE IF i > 1 /\ IsSpace(Char(s, i)) /\ IsTerminator(Char(s, i - 1))
         THEN Piece(s, start, i - 1)
              \o split_sentences_from(s, skip_spaces(s, i), skip_spaces(s, i))
         ELSE split_sentences_from(s, start, i + 1)

split_sentences(s) == split_sentences_from(s, 1, 1)

\* the pieces of s between the matches of [,.!?:\s]+
RECURSIVE split_words_from(_, _, _)
split_words_from(s, start, i) ==
    IF i > Len(s) THEN Piece(s, start, Len(s))
    ELSE IF IsWordSeparator(Char(s, i))
         THEN Piece(s, start, i - 1)
              \o split_words_from(s, skip_separators(s, i), skip_separators(s, i))
         ELSE split_words_from(s, start, i + 1)

split_words(s) == split_words_from(s, 1, 1)

-----------------------------------------------------------------------------
(* Dictionary *)

\* HashMap::new()
EmptyIndices == [w \in {} |-> <<>>]

\* the place of x in the stable order: after every element not greater
RECURSIVE insert_sorted_bytes(_, _)
insert_sorted_bytes(sorted, x) ==
    IF sorted = <<>> THEN <<x>>
    ELSE IF cmp(x, Head(sorted)) = "Less"
         THEN <<x>> \o sorted
         ELSE <<Head(sorted)>> \o insert_sorted_bytes(Tail(sorted), x)

RECURSIVE insert_sorted(_, _)
insert_sorted(sorted, x) ==
    IF sorted = <<>> THEN <<x>>
    ELSE IF cmp(to_lowercase(x), to_lowercase(Head(sorted))) = "Less"
         THEN <<x>> \o sorted
         ELSE <<Head(sorted)>> \o insert_sorted(Tail(sorted), x)

\* a sort that compares the bytes instead of the lower-cased strings
RECURSIVE sort_sentences_bytes(_)
sort_sentences_bytes(ss) ==
    IF ss = <<>> THEN <<>>
    ELSE insert_sorted_bytes(sort_sentences_bytes(SubSeq(ss, 1, Len(ss) - 1)), ss[Len(ss)])

\* a sort that keeps one of several equal sentences
RECURSIVE sort_sentences_dedup(_)
sort_sentences_dedup(ss) ==
    IF ss = <<>> THEN <<>>
    ELSE LET rest == sort_sentences_dedup(SubSeq(ss, 1, Len(ss) - 1))
         IN  IF ss[Len(ss)] \in Range(rest) THEN rest
             ELSE insert_sorted(rest, ss[Len(ss)])

\* sort_by is a stable sort: equal elements keep their order
RECURSIVE sort_sentences(_)
sort_sentences(ss) ==
    IF ss = <<>> THEN <<>>
    ELSE insert_sorted(sort_sentences(SubSeq(ss, 1, Len(ss) - 1)), ss[Len(ss)])

insert_word_into_indices_dup(idx, word, sentence_index) ==
    IF word \in DOMAIN idx
    THEN [idx EXCEPT ![word] = Append(@, sentence_index)]
    ELSE idx @@ (word :> <<sentence_index>>)

insert_word_into_indices(idx, word, sentence_index) ==
    IF word \in DOMAIN idx
    THEN IF sentence_index \in Range(idx[word])
         THEN idx
         ELSE [idx EXCEPT ![word] = Append(@, sentence_index)]
    ELSE idx @@ (word :> <<sentence_index>>)

\* for word in words { insert_word_into_indices(indices, word, i) }
RECURSIVE insert_words(_, _, _)
insert_words(idx, words, sentence_index) ==
    IF words = <<>> THEN idx
    ELSE insert_words(insert_word_into_indices(idx, Head(words), sentence_index),
                      Tail(words), sentence_index)

needs_to_build_indices_any(ss, idx) == Len(ss) > 0 \/ Cardinality(DOMAIN idx) = 0

needs_to_build_indices(ss, idx) == Len(ss) > 0 /\ Cardinality(DOMAIN idx) = 0

\* the enumerate().for_each of rebuild_indices over ss[k..]
RECURSIVE index_sentences(_, _, _)
index_sentences(idx, ss, k) ==
    IF k > Len(ss) THEN idx
    ELSE index_sentences(insert_words(idx, split_words(to_lowercase(ss[k])), k - 1),
                         ss, k + 1)

\* an index built before the sentences are sorted
rebuild_indices_unsorted(ss, idx) ==
    [sentences |-> sort_sentences(ss),
     indices   |-> index_sentences(EmptyIndices, ss, 1)]

\* an index built on top of the old one
rebuild_indices_keep(ss, idx) ==
    [sentences |-> sort_sentences(ss),
     indices   |-> index_sentences(idx, sort_sentences(ss), 1)]

rebuild_indices(ss, idx) ==
    [sentences |-> sort_sentences(ss),
     indices   |-> index_sentences(EmptyIndices, sort_sentences(ss), 1)]

\* slice::binary_search of Rust up to 1.51 (and again from 1.82): halve `size`
\* around `base`, compare once more at the end
RECURSIVE binary_search_halving(_, _, _, _)
binary_search_halving(ss, x, base, size) ==
    IF size > 1
    THEN LET half == size \div 2
             mid  == base + half
         IN  binary_search_halving(ss, x,
                 IF cmp(ss[mid + 1], x) = "Greater" THEN base ELSE mid,
                 size - half)
    ELSE cmp(ss[base + 1], x) = "Equal"

\* slice::binary_search of Rust 1.52 to 1.81: three-way, returns at the first Equal
RECURSIVE binary_search_threeway(_, _, _, _)
binary_search_threeway(ss, x, left, right) ==
    IF left < right
    THEN LET mid == left + ((right - left) \div 2)
             c   == cmp(ss[mid + 1], x)
         IN  IF c = "Less" THEN binary_search_threeway(ss, x, mid + 1, right)
             ELSE IF c = "Greater" THEN binary_search_threeway(ss, x, left, mid)
             ELSE TRUE
    ELSE FALSE

\* self.sentences.binary_search(..).is_ok()
knows_sentence(ss, sentence, impl) ==
    IF ss = <<>> THEN FALSE
    ELSE IF impl = "halving" THEN binary_search_halving(ss, sentence, 0, Len(ss))
    ELSE binary_search_threeway(ss, sentence, 0, Len(ss))

\* the body of learn's loop with the position taken after the push, off by one
learn_sentence_off(d, sentence) ==
    [sentences |-> Append(d.sentences, sentence),
     indices   |-> insert_words(d.indices, split_words(sentence), Len(d.sentences) + 1),
     learned_something |-> TRUE]

\* the body of learn's loop that puts the new sentence first
learn_sentence_front(d, sentence) ==
    [sentences |-> <<sentence>> \o d.sentences,
     indices   |-> insert_words(d.indices, split_words(sentence), Len(d.sentences)),
     learned_something |-> TRUE]

\* the body of learn's loop for a sentence that is not known: push it, then
\* index its words at sentence_index = len - 1
learn_sentence(d, sentence) ==
    [sentences |-> Append(d.sentences, sentence),
     indices   |-> insert_words(d.indices, split_words(sentence), Len(d.sentences)),
     learned_something |-> TRUE]

\* for sentence in split_sentences(..) { if known { continue } .. }
RECURSIVE learn_loop(_, _, _)
learn_loop(d, sents, impl) ==
    IF sents = <<>> THEN d
    ELSE IF knows_sentence(d.sentences, Head(sents), impl)
         THEN learn_loop(d, Tail(sents), impl)
         ELSE learn_loop(learn_sentence(d, Head(sents)), Tail(sents), impl)

learn(ss, idx, line, impl) ==
    learn_loop([sentences |-> ss, indices |-> idx, learned_something |-> FALSE],
               split_sentences(to_lowercase(line)), impl)

-----------------------------------------------------------------------------
(* Patterns (src/src/pattern.rs) *)

\* Option<T>: None is <<>>, Some(v) is <<v>>
None == <<>>
Some(v) == <<v>>

\* a Pattern as deserialized: `compiled` is skipped by serde, so it is None
NewPattern(original) == [original |-> original, compiled |-> FALSE]

\* a Pattern after a successful compile()
CompiledPattern(original) == [original |-> original, compiled |-> TRUE]

\* Regex::new(original) succeeds. The patterns of the model are literal texts;
\* "(" is the one that is no regular expression
RegexIsValid(original) == original # "("

\* Regex::is_match(input) for a literal pattern: it occurs somewhere in input
is_match(original, input) ==
    \E i \in 1..(Len(input) - Len(original) + 1) :
        SubSeq(input, i, i + Len(original) - 1) = original

\* Pattern::compile with the error dropped: the pattern is left as it was
compile_keep(p) == [pattern |-> p, ok |-> p.compiled]

\* Pattern::compile that stores a compiled form also when Regex::new fails
compile_always(p) == [pattern |-> [p EXCEPT !.compiled = TRUE], ok |-> TRUE]

\* Pattern::compile: the pattern afterwards, and whether it returned Ok
compile(p) ==
    IF p.compiled THEN [pattern |-> p, ok |-> TRUE]
    ELSE IF RegexIsValid(p.original)
         THEN [pattern |-> [p EXCEPT !.compiled = TRUE], ok |-> TRUE]
         ELSE [pattern |-> p, ok |-> FALSE]

\* Pattern::get_regex: Ok(regex) or Err(NotCompiledError)
get_regex(p) == IF p.compiled THEN "Ok" ELSE "NotCompiledError"

\* matches_any that takes a pattern without compiled form as not matching
RECURSIVE matches_any_skip(_, _)
matches_any_skip(input, patterns) ==
    IF patterns = <<>> THEN [panicked |-> FALSE, found |-> None]
    ELSE IF Head(patterns).compiled /\ is_match(Head(patterns).original, input)
         THEN [panicked |-> FALSE, found |-> Some(Head(patterns))]
         ELSE matches_any_skip(input, Tail(patterns))

\* matches_any that looks at the first pattern only
matches_any_first(input, patterns) ==
    IF patterns = <<>> THEN [panicked |-> FALSE, found |-> None]
    ELSE IF ~Head(patterns).compiled THEN [panicked |-> TRUE, found |-> None]
    ELSE IF is_match(Head(patterns).original, input)
         THEN [panicked |-> FALSE, found |-> Some(Head(patterns))]
         ELSE [panicked |-> FALSE, found |-> None]

\* matches_any: the first pattern that matches; get_regex() of a pattern
\* that has no compiled form is an Err, and that arm panics
RECURSIVE matches_any(_, _)
matches_any(input, patterns) ==
    IF patterns = <<>> THEN [panicked |-> FALSE, found |-> None]
    ELSE IF ~Head(patterns).compiled THEN [panicked |-> TRUE, found |-> None]
    ELSE IF is_match(Head(patterns).original, input)
         THEN [panicked |-> FALSE, found |-> Some(Head(patterns))]
         ELSE matches_any(input, Tail(patterns))

-----------------------------------------------------------------------------
(* Behavior and its resolvers (src/src/config.rs) *)

\* a BehaviorOverride with every field None
NoOverride ==
    [speaking |-> None, learning |-> None, reply_rate |-> None,
     reply_nick |-> None, reply_magic |-> None, nick_patterns |-> None,
     magic_patterns |-> None, blacklisted_patterns |-> None,
     ignored_users |-> None]

\* BehaviorOverrideValueResolver::new
OverrideResolver(b, o) == [behavior |-> b, override_ |-> o]

\* self.override_.as_ref().map(|o| o.f()).unwrap_or(self.behavior.f): with an
\* inner resolver the answer is the inner one's, also when that is None
RECURSIVE override_get(_, _)
override_get(r, f) ==
    IF r.override_ # None THEN override_get(r.override_[1], f) ELSE r.behavior[f]

override_is_speaking(r) == override_get(r, "speaking")

\* is_learning asks the inner resolver for is_speaking()
override_is_learning(r) ==
    IF r.override_ # None THEN override_is_speaking(r.override_[1])
    ELSE r.behavior.learning

override_reply_rate(r) == override_get(r, "reply_rate")
override_reply_magic(r) == override_get(r, "reply_magic")
override_reply_nick(r) == override_get(r, "reply_nick")
override_nick_patterns(r) == override_get(r, "nick_patterns")
override_magic_patterns(r) == override_get(r, "magic_patterns")
override_blacklisted_patterns(r) == override_get(r, "blacklisted_patterns")
override_ignored_users(r) == override_get(r, "ignored_users")

\* BehaviorValueResolver::new
ValueResolver(b, o) == [behavior |-> b, override_ |-> o]

\* self.override_.as_ref().and_then(|o| v(o)).unwrap_or(base)
AndThenOr(o, v, base) == IF o # None /\ v # None THEN v[1] ELSE base

is_speaking(b) ==
    AndThenOr(b.override_,
              IF b.override_ # None THEN override_is_speaking(b.override_[1]) ELSE None,
              b.behavior.speaking)

\* is_learning that falls back to the base policy's speaking
is_learning_or_speaking(b) ==
    AndThenOr(b.override_,
              IF b.override_ # None THEN override_is_speaking(b.override_[1]) ELSE None,
              b.behavior.speaking)

\* is_learning asks the override for is_speaking()
is_learning(b) ==
    AndThenOr(b.override_,
              IF b.override_ # None THEN override_is_speaking(b.override_[1]) ELSE None,
              b.behavior.learning)

reply_rate(b) ==
    AndThenOr(b.override_,
              IF b.override_ # None THEN override_reply_rate(b.override_[1]) ELSE None,
              b.behavior.reply_rate)

reply_magic(b) ==
    AndThenOr(b.override_,
              IF b.override_ # None THEN override_reply_magic(b.override_[1]) ELSE None,
              b.behavior.reply_magic)

reply_nick(b) ==
    AndThenOr(b.override_,
              IF b.override_ # None THEN override_reply_nick(b.override_[1]) ELSE None,
              b.behavior.reply_nick)

nick_patterns(b) ==
    AndThenOr(b.override_,
              IF b.override_ # None THEN override_nick_patterns(b.override_[1]) ELSE None,
              b.behavior.nick_patterns)

magic_patterns(b) ==
    AndThenOr(b.override_,
              IF b.override_ # None THEN override_magic_patterns(b.override_[1]) ELSE None,
              b.behavior.magic_patterns)

blacklisted_patterns(b) ==
    AndThenOr(b.override_,
              IF b.override_ # None
              THEN override_blacklisted_patterns(b.override_[1]) ELSE None,
              b.behavior.blacklisted_patterns)

ignored_users(b) ==
    AndThenOr(b.override_,
              IF b.override_ # None THEN override_ignored_users(b.override_[1]) ELSE None,
              b.behavior.ignored_users)

\* what the nine accessors of BehaviorValueResolver::new(main, override) return
resolve_all(main, override) ==
    LET b == ValueResolver(main, override)
    IN  [speaking |-> is_speaking(b), learning |-> is_learning(b),
         reply_rate |-> reply_rate(b), reply_nick |-> reply_nick(b),
         reply_magic |-> reply_magic(b), nick_patterns |-> nick_patterns(b),
         magic_patterns |-> magic_patterns(b),
         blacklisted_patterns |-> blacklisted_patterns(b),
         ignored_users |-> ignored_users(b)]

-----------------------------------------------------------------------------
(* The overrides of a Telegram chat (src/src/telegram.rs) *)

\* Context::override_for_chat: the behavior of the first entry of
\* chat_behaviors whose chat_id is the chat's id as a string
override_for_chat(config, chat_id) ==
    IF config.chat_behaviors = None THEN None
    ELSE LET bs == config.chat_behaviors[1]
             found == {k \in DOMAIN bs : bs[k].chat_id = chat_id}
         IN  IF found = {} THEN None
             ELSE Some(bs[CHOOSE k \in found : \A j \in found : k <= j].behavior)

\* Context::behavior_for_chat: a resolver for the platform's behavior, with a
\* resolver for the chat's override inside; None without a platform behavior
behavior_for_chat(config, chat_id) ==
    IF config.behavior = None THEN None
    ELSE LET o == override_for_chat(config, chat_id)
         IN  Some(OverrideResolver(
                 config.behavior[1],
                 IF o = None THEN None ELSE Some(OverrideResolver(o[1], None))))

-----------------------------------------------------------------------------
(* Borg (src/src/borg.rs) *)

Percent == 100

\* chance(chance, rng) for the value v that rng.next_u32() gave
chance(p, v) ==
    LET r == v % Percent
    IN  r > p \/ r = Percent

\* the outcome of a call: it returned value after taking `used` values from
\* the rng, or it panicked
Returned(value, used) == [ret |-> value, panicked |-> FALSE, used |-> used]
Panicked(used) == [ret |-> FALSE, panicked |-> TRUE, used |-> used]

\* should_learn without the ignored-users check
should_learn_blacklist_only(main, user_id, input, override) ==
    LET b == ValueResolver(main, override)
        black == matches_any(input, blacklisted_patterns(b))
    IN  IF black.panicked THEN Panicked(0)
        ELSE IF black.found # None THEN Returned(FALSE, 0)
        ELSE Returned(TRUE, 0)

\* Borg::should_learn(user_id, input, behavior)
should_learn(main, user_id, input, override) ==
    LET b == ValueResolver(main, override)
        ignored == matches_any(user_id, ignored_users(b))
        black == matches_any(input, blacklisted_patterns(b))
    IN  IF ignored.panicked THEN Panicked(0)
        ELSE IF ignored.found # None THEN Returned(FALSE, 0)
        ELSE IF black.panicked THEN Panicked(0)
        ELSE IF black.found # None THEN Returned(FALSE, 0)
        ELSE Returned(TRUE, 0)

\* what should_reply_to does from the nick patterns on; rolls are the values
\* rng.next_u32() gives, in order
reply_by_chance(b, input, rolls) ==
    LET nick == matches_any(input, nick_patterns(b))
        n1 == IF nick.found # None THEN 1 ELSE 0
        magic == matches_any(input, magic_patterns(b))
        n2 == n1 + (IF magic.found # None THEN 1 ELSE 0)
    IN  IF nick.panicked THEN Panicked(0)
        ELSE IF nick.found # None /\ chance(reply_nick(b), rolls[1]) THEN Returned(TRUE, 1)
        ELSE IF magic.panicked THEN Panicked(n1)
        ELSE IF magic.found # None /\ chance(reply_magic(b), rolls[n2])
             THEN Returned(TRUE, n2)
        ELSE Returned(chance(reply_rate(b), rolls[n2 + 1]), n2 + 1)

\* should_reply_to that asks is_speaking() before the ignored users
should_reply_to_speaking_first(main, user_id, input, override, rolls) ==
    LET b == ValueResolver(main, override)
        ignored == matches_any(user_id, ignored_users(b))
    IN  IF ~is_speaking(b) THEN Returned(FALSE, 0)
        ELSE IF ignored.panicked THEN Panicked(0)
        ELSE IF ignored.found # None THEN Returned(TRUE, 0)
        ELSE reply_by_chance(b, input, rolls)

\* Borg::should_reply_to(user_id, input, behavior)
should_reply_to(main, user_id, input, override, rolls) ==
    LET b == ValueResolver(main, override)
        ignored == matches_any(user_id, ignored_users(b))
    IN  IF ignored.panicked THEN Panicked(0)
        ELSE IF ignored.found # None THEN Returned(TRUE, 0)
        ELSE IF ~is_speaking(b) THEN Returned(FALSE, 0)
        ELSE reply_by_chance(b, input, rolls)

\* the Borg's behavior in the runs that exercise the Dictionary alone
DefaultBehavior ==
    [speaking |-> TRUE, learning |-> TRUE, reply_rate |-> 0, reply_nick |-> 0,
     reply_magic |-> 0, nick_patterns |-> <<>>, magic_patterns |-> <<>>,
     blacklisted_patterns |-> <<>>, ignored_users |-> <<>>]

\* no call of the Borg yet
NoCall == [user_id |-> "", input |-> "", override |-> None]

\* a TelegramPlatform without behavior and chat_behaviors
NoPlatformConfig == [behavior |-> None, chat_behaviors |-> None]

\* the runs without a platform: nothing is configured or resolved
NoPlatform ==
    /\ platform_config = NoPlatformConfig
    /\ resolved = None

\* the runs that do not go through main
NoMain == [pc |-> "none", needed |-> FALSE, saved |-> "none", borg |-> None,
           telegram |-> "none", tasks |-> FALSE]

\* the handlers that may run at once
Handlers == {1, 2}

\* no message yet
NoMessage == [chat_id |-> "", user_id |-> "", text |-> None, old |-> FALSE]

\* the runs without a platform: no handler runs; respond_to is the one of
\* the source
NoHandler ==
    /\ pc = [h \in Handlers |-> "idle"]
    /\ msg = [h \in Handlers |-> NoMessage]
    /\ response = [h \in Handlers |-> None]
    /\ context_lock = {}
    /\ borg_lock = {}
    /\ respond_body = "todo"
    /\ startup = NoMain

-----------------------------------------------------------------------------
(* Responding (src/src/dictionary.rs) *)

\* Dictionary::knows_word
knows_word(idx, word) == word \in DOMAIN idx

\* Dictionary::known_words: the words of the lower-cased line that are keys
\* of the index, in the order of the line
RECURSIVE filter_known(_, _)
filter_known(idx, words) ==
    IF words = <<>> THEN <<>>
    ELSE IF knows_word(idx, Head(words))
         THEN <<Head(words)>> \o filter_known(idx, Tail(words))
         ELSE filter_known(idx, Tail(words))

known_words(idx, line) == filter_known(idx, split_words(to_lowercase(line)))

\* Dictionary::sentences_with_word: self.sentences[*y] for each y of
\* indices[word]; indexing past the end panics
sentences_with_word(ss, idx, word) ==
    IF word \notin DOMAIN idx THEN [panicked |-> FALSE, found |-> <<>>]
    ELSE IF \E k \in DOMAIN idx[word] : idx[word][k] >= Len(ss)
         THEN [panicked |-> TRUE, found |-> <<>>]
         ELSE [panicked |-> FALSE,
               found |-> [k \in DOMAIN idx[word] |-> ss[idx[word][k] + 1]]]

\* Dictionary::respond_to as the specification describes it: None without a
\* known word; else a known word picked with v1 and one of its sentences picked
\* with v2
respond_to_described(ss, idx, line, v1, v2) ==
    LET known == known_words(idx, line)
    IN  IF known = <<>> THEN Returned(None, 0)
        ELSE LET pivot == known[(v1 % Len(known)) + 1]
                 with  == sentences_with_word(ss, idx, pivot)
             IN  IF with.panicked THEN Panicked(1)
                 ELSE IF with.found = <<>> THEN Returned(None, 1)
                 ELSE Returned(Some(with.found[(v2 % Len(with.found)) + 1]), 2)

\* Dictionary::respond_to: its body is todo!(), which panics
respond_to(ss, idx, line) == Panicked(0)

-----------------------------------------------------------------------------
(* The operations of a Dictionary *)

\* Dictionary::learn(line)
Learn(line) ==
    /\ Len(sentences) + Len(split_sentences(to_lowercase(line))) <= MaxSentences
    /\ LET d == learn(sentences, indices, line, bsearch)
       IN  /\ sentences' = d.sentences
           /\ indices' = d.indices
           /\ ret' = d.learned_something
    /\ op' = "learn"
    /\ arg' = line
    /\ panicked' = FALSE
    /\ UNCHANGED <<bsearch, rebuilt, behavior, call, draws>>
    /\ UNCHANGED <<platform_vars, handle_vars>>
    /\ UNCHANGED startup

\* Dictionary::rebuild_indices()
RebuildIndices ==
    /\ LET d == rebuild_indices(sentences, indices)
       IN  /\ sentences' = d.sentences
           /\ indices' = d.indices
    /\ rebuilt' = TRUE
    /\ op' = "rebuild_indices"
    /\ arg' = ""
    /\ ret' = FALSE
    /\ panicked' = FALSE
    /\ UNCHANGED <<bsearch, behavior, call, draws>>
    /\ UNCHANGED <<platform_vars, handle_vars>>
    /\ UNCHANGED startup

\* Dictionary::needs_to_build_indices()
NeedsToBuildIndices ==
    /\ ret' = needs_to_build_indices(sentences, indices)
    /\ op' = "needs_to_build_indices"
    /\ arg' = ""
    /\ panicked' = FALSE
    /\ UNCHANGED <<dict_vars, behavior, call, draws>>
    /\ UNCHANGED <<platform_vars, handle_vars>>
    /\ UNCHANGED startup

\* Dictionary::respond_to(line, rng), as Borg::respond_to calls it
RespondTo(line) ==
    /\ LET r == respond_to(sentences, indices, line)
       IN  /\ ret' = r.ret
           /\ panicked' = r.panicked
    /\ op' = "respond_to"
    /\ arg' = line
    /\ UNCHANGED <<dict_vars, behavior, call, draws>>
    /\ UNCHANGED <<platform_vars, handle_vars>>
    /\ UNCHANGED startup

\* Dictionary::sentences_with_word(word)
SentencesWithWord(word) ==
    /\ LET r == sentences_with_word(sentences, indices, word)
       IN  /\ ret' = r.found
           /\ panicked' = r.panicked
    /\ op' = "sentences_with_word"
    /\ arg' = word
    /\ UNCHANGED <<dict_vars, behavior, call, draws>>
    /\ UNCHANGED <<platform_vars, handle_vars>>
    /\ UNCHANGED startup

\* Dictionary::new_empty()
Init ==
    /\ sentences = <<>>
    /\ indices = EmptyIndices
    /\ bsearch \in {"halving", "threeway"}
    /\ rebuilt = FALSE
    /\ op = "new_empty"
    /\ arg = ""
    /\ ret = FALSE
    /\ behavior = DefaultBehavior
    /\ call = NoCall
    /\ panicked = FALSE
    /\ draws = <<>>
    /\ NoPlatform
    /\ NoHandler

Next ==
    \/ \E line \in Lines : Learn(line)
    \/ RebuildIndices
    \/ NeedsToBuildIndices
    \/ \E line \in Questions : RespondTo(line)
    \/ \E word \in Words : SentencesWithWord(word)

Spec == Init /\ [][Next]_vars

-----------------------------------------------------------------------------
(* The operations of a Borg *)

\* who writes, and what
UserIds == {"user1", "user2"}
Inputs == {"some text", "borg", "magic spam", "borg magic"}

\* the values rng.next_u32() gives: a sample of the 32-bit values (TLC's
\* integers end at 2^31 - 1); modulo 100 they are 0 and 47
RandomValues == {100, 2147483647}

\* the override handed to should_learn and should_reply_to: none, one layer,
\* and a layer over an inner layer
Overrides ==
    { None,
      Some(OverrideResolver(
          [NoOverride EXCEPT !.speaking = Some(FALSE),
                             !.ignored_users = Some(<<CompiledPattern("user2")>>)],
          None)),
      Some(OverrideResolver(
          [NoOverride EXCEPT !.speaking = Some(FALSE)],
          Some(OverrideResolver(
              [NoOverride EXCEPT !.ignored_users = Some(<<NewPattern("user2")>>)],
              None)))) }

\* the configurations config.yml may hold; no pattern is compiled after loading
Behaviors ==
    [speaking : BOOLEAN, learning : {TRUE}, reply_rate : {0, 100}, reply_nick : {0},
     reply_magic : {40},
     nick_patterns : {<<>>, <<NewPattern("borg")>>},
     magic_patterns : {<<NewPattern("magic")>>},
     blacklisted_patterns : {<<>>, <<NewPattern("spam")>>},
     ignored_users : {<<>>, <<NewPattern("user1")>>,
                      <<NewPattern("("), NewPattern("user1")>>}]

PatternFields == {"nick_patterns", "magic_patterns", "blacklisted_patterns",
                  "ignored_users"}

\* Borg::should_learn(user_id, input, behavior)
ShouldLearn(user_id, input, override) ==
    /\ LET r == should_learn(behavior, user_id, input, override)
       IN  /\ ret' = r.ret
           /\ panicked' = r.panicked
           /\ draws' = <<>>
    /\ op' = "should_learn"
    /\ arg' = ""
    /\ call' = [user_id |-> user_id, input |-> input, override |-> override]
    /\ UNCHANGED <<dict_vars, behavior>>
    /\ UNCHANGED <<platform_vars, handle_vars>>
    /\ UNCHANGED startup

\* Borg::should_reply_to(user_id, input, behavior); rolls are the values the
\* rng would give
ShouldReplyTo(user_id, input, override, rolls) ==
    /\ LET r == should_reply_to(behavior, user_id, input, override, rolls)
       IN  /\ ret' = r.ret
           /\ panicked' = r.panicked
           /\ draws' = SubSeq(rolls, 1, r.used)
    /\ op' = "should_reply_to"
    /\ arg' = ""
    /\ call' = [user_id |-> user_id, input |-> input, override |-> override]
    /\ UNCHANGED <<dict_vars, behavior>>
    /\ UNCHANGED <<platform_vars, handle_vars>>
    /\ UNCHANGED startup

\* Pattern::compile() on the i-th pattern of a list of the behavior; arg keeps
\* what get_regex() gave before the call
CompilePattern(f, i) ==
    /\ i \in DOMAIN behavior[f]
    /\ LET r == compile(behavior[f][i])
       IN  /\ behavior' = [behavior EXCEPT ![f][i] = r.pattern]
           /\ ret' = r.ok
    /\ arg' = get_regex(behavior[f][i])
    /\ op' = "compile"
    /\ call' = [user_id |-> "", input |-> behavior[f][i].original, override |-> None]
    /\ panicked' = FALSE
    /\ draws' = <<>>
    /\ UNCHANGED dict_vars
    /\ UNCHANGED <<platform_vars, handle_vars>>
    /\ UNCHANGED startup

\* Borg::new(dictionary, behavior)
InitBorg ==
    /\ sentences = <<>>
    /\ indices = EmptyIndices
    /\ bsearch = "halving"
    /\ rebuilt = FALSE
    /\ behavior \in Behaviors
    /\ op = "new"
    /\ arg = ""
    /\ call = NoCall
    /\ ret = FALSE
    /\ panicked = FALSE
    /\ draws = <<>>
    /\ NoPlatform
    /\ NoHandler

NextBorg ==
    \/ \E u \in UserIds, i \in Inputs, o \in Overrides : ShouldLearn(u, i, o)
    \/ \E u \in UserIds, i \in Inputs, o \in Overrides,
          rolls \in [1..3 -> RandomValues] : ShouldReplyTo(u, i, o, rolls)
    \/ \E f \in PatternFields, i \in 1..2 : CompilePattern(f, i)

SpecBorg == InitBorg /\ [][NextBorg]_vars

-----------------------------------------------------------------------------
(* Resolving the behavior values *)

\* the BehaviorOverride layers of config.yml
Layers ==
    { NoOverride,
      [NoOverride EXCEPT !.speaking = Some(FALSE), !.reply_rate = Some(50)],
      [NoOverride EXCEPT !.learning = Some(FALSE),
                         !.nick_patterns = Some(<<NewPattern("bot")>>)],
      [NoOverride EXCEPT !.speaking = Some(TRUE), !.learning = Some(TRUE),
                         !.reply_magic = Some(10),
                         !.ignored_users = Some(<<>>)] }

\* the chains of resolvers up to three layers deep
Chains1 == {Some(OverrideResolver(l, None)) : l \in Layers}
Chains2 == {Some(OverrideResolver(l, c)) : l \in Layers, c \in Chains1}
Chains3 == {Some(OverrideResolver(NoOverride, c)) : c \in Chains2}
Chains == {None} \cup Chains1 \cup Chains2 \cup Chains3

\* the base policies
ResolverBehaviors ==
    { [DefaultBehavior EXCEPT !.speaking = FALSE, !.reply_rate = 100,
                              !.ignored_users = <<NewPattern("user1")>>],
      [DefaultBehavior EXCEPT !.learning = FALSE, !.reply_nick = 30,
                              !.nick_patterns = <<NewPattern("borg")>>] }

\* the chats
ChatIds == {"10", "20", "30"}

\* the telegram sections of config.yml
PlatformConfigs ==
    [behavior : {None} \cup {Some(l) : l \in Layers},
     chat_behaviors :
        {None, Some(<<>>)}
        \cup {Some(<<[chat_id |-> "10", behavior |-> l]>>) : l \in Layers}
        \cup {Some(<<[chat_id |-> "20", behavior |-> NoOverride],
                     [chat_id |-> "10", behavior |-> l],
                     [chat_id |-> "10", behavior |-> NoOverride]>>) : l \in Layers}]

\* BehaviorValueResolver::new(&self.behavior, behavior) and its accessors
Resolve(override) ==
    /\ resolved' = resolve_all(behavior, override)
    /\ op' = "resolve"
    /\ call' = [user_id |-> "", input |-> "", override |-> override]
    /\ UNCHANGED <<dict_vars, behavior, arg, ret, panicked, draws>>
    /\ UNCHANGED <<platform_config, handle_vars>>
    /\ UNCHANGED startup

\* the same for the override Context::behavior_for_chat gives for a chat
ResolveForChat(chat_id) ==
    /\ LET o == behavior_for_chat(platform_config, chat_id)
       IN  /\ resolved' = resolve_all(behavior, o)
           /\ call' = [user_id |-> "", input |-> chat_id, override |-> o]
    /\ op' = "resolve_for_chat"
    /\ UNCHANGED <<dict_vars, behavior, arg, ret, panicked, draws>>
    /\ UNCHANGED <<platform_config, handle_vars>>
    /\ UNCHANGED startup

InitResolver ==
    /\ sentences = <<>>
    /\ indices = EmptyIndices
    /\ bsearch = "halving"
    /\ rebuilt = FALSE
    /\ behavior \in ResolverBehaviors
    /\ op = "new"
    /\ arg = ""
    /\ call = NoCall
    /\ ret = FALSE
    /\ panicked = FALSE
    /\ draws = <<>>
    /\ platform_config \in PlatformConfigs
    /\ resolved = None
    /\ NoHandler

NextResolver ==
    \/ \E o \in Chains : Resolve(o)
    \/ \E c \in ChatIds : ResolveForChat(c)

SpecResolver == InitResolver /\ [][NextResolver]_vars

-----------------------------------------------------------------------------
(* The Telegram update handler (src/src/telegram.rs, handle). Each await of *)
(* the handler ends a step; the calls of the Borg are steps of their own,   *)
(* since handlers may run on several threads.                               *)

\* the messages that arrive
Messages ==
    { [chat_id |-> "10", user_id |-> "user1", text |-> Some("a a!"), old |-> FALSE],
      [chat_id |-> "20", user_id |-> "user2", text |-> Some("B. a a!"), old |-> FALSE],
      [chat_id |-> "10", user_id |-> "user2", text |-> None, old |-> FALSE],
      [chat_id |-> "20", user_id |-> "user1", text |-> Some("a a!"), old |-> TRUE] }

\* the most sentences one of these messages holds
MessageSentences == 2

\* the base policies of the runs with handlers: without patterns, and with a
\* pattern as config.yml gives it
HandleBehaviors ==
    { DefaultBehavior,
      [DefaultBehavior EXCEPT !.blacklisted_patterns = <<NewPattern("B")>>] }

\* the telegram sections of the runs with handlers
HandlePlatformConfigs ==
    { NoPlatformConfig,
      [behavior |-> Some([NoOverride EXCEPT !.speaking = Some(FALSE)]),
       chat_behaviors |->
          Some(<<[chat_id |-> "10",
                  behavior |-> [NoOverride EXCEPT !.speaking = Some(TRUE)]]>>)] }

\* Mutex::lock().await that does not wait for the guard to be dropped
can_lock_always(holders) == TRUE

\* futures::lock::Mutex::lock().await completes once no guard is alive
can_lock(holders) == holders = {}

\* the handlers that have been called and have not returned
Running == {h \in Handlers : pc[h] # "idle"}

\* a panic unwinds the handler: its guards are dropped, it does not return
Unwind(h) ==
    /\ pc' = [pc EXCEPT ![h] = "idle"]
    /\ context_lock' = context_lock \ {h}
    /\ borg_lock' = borg_lock \ {h}

\* the dispatcher calls handle(context, message)
Receive(h, m) ==
    /\ pc[h] = "idle"
    /\ Len(sentences) + MessageSentences * (Cardinality(Running) + 1) <= MaxSentences
    /\ pc' = [pc EXCEPT ![h] = "lock_context"]
    /\ msg' = [msg EXCEPT ![h] = m]
    /\ response' = [response EXCEPT ![h] = None]
    /\ UNCHANGED <<dict_vars, behavior, op, arg, call, ret, panicked, draws>>
    /\ UNCHANGED <<platform_vars, context_lock, borg_lock, respond_body>>
    /\ UNCHANGED startup

\* let context = context.lock().await
HandleLockContext(h) ==
    /\ pc[h] = "lock_context"
    /\ can_lock(context_lock)
    /\ context_lock' = context_lock \cup {h}
    /\ pc' = [pc EXCEPT ![h] = "check"]
    /\ UNCHANGED <<dict_vars, behavior, op, arg, call, ret, panicked, draws>>
    /\ UNCHANGED <<platform_vars, msg, response, borg_lock, respond_body>>
    /\ UNCHANGED startup

\* a message that is older than now or has no text is skipped: the handler
\* returns and the context guard is dropped
HandleCheck(h) ==
    /\ pc[h] = "check"
    /\ IF msg[h].old \/ msg[h].text = None
       THEN /\ pc' = [pc EXCEPT ![h] = "idle"]
            /\ context_lock' = context_lock \ {h}
       ELSE /\ pc' = [pc EXCEPT ![h] = "lock_borg"]
            /\ UNCHANGED context_lock
    /\ UNCHANGED <<dict_vars, behavior, op, arg, call, ret, panicked, draws>>
    /\ UNCHANGED <<platform_vars, msg, response, borg_lock, respond_body>>
    /\ UNCHANGED startup

\* let mut borg = context.borg.lock().await
HandleLockBorg(h) ==
    /\ pc[h] = "lock_borg"
    /\ can_lock(borg_lock)
    /\ borg_lock' = borg_lock \cup {h}
    /\ pc' = [pc EXCEPT ![h] = "should_learn"]
    /\ UNCHANGED <<dict_vars, behavior, op, arg, call, ret, panicked, draws>>
    /\ UNCHANGED <<platform_vars, msg, response, context_lock, respond_body>>
    /\ UNCHANGED startup

\* the arguments handle gives to the Borg for the message of h
CallOf(h) ==
    [user_id |-> msg[h].user_id, input |-> msg[h].text[1],
     override |-> behavior_for_chat(platform_config, msg[h].chat_id)]

\* borg.should_learn(user_id, input, &behavior)
HandleShouldLearn(h) ==
    /\ pc[h] = "should_learn"
    /\ LET c == CallOf(h)
           r == should_learn(behavior, c.user_id, c.input, c.override)
       IN  /\ call' = c
           /\ ret' = r.ret
           /\ panicked' = r.panicked
           /\ IF r.panicked THEN Unwind(h)
              ELSE /\ pc' = [pc EXCEPT ![h] = IF r.ret THEN "learn"
                                                      ELSE "should_reply_to"]
                   /\ UNCHANGED <<context_lock, borg_lock>>
    /\ op' = "should_learn"
    /\ draws' = <<>>
    /\ UNCHANGED <<dict_vars, behavior, arg>>
    /\ UNCHANGED <<platform_vars, msg, response, respond_body>>
    /\ UNCHANGED startup

\* borg.learn(input)
HandleLearn(h) ==
    /\ pc[h] = "learn"
    /\ LET d == learn(sentences, indices, msg[h].text[1], bsearch)
       IN  /\ sentences' = d.sentences
           /\ indices' = d.indices
           /\ ret' = d.learned_something
    /\ op' = "learn"
    /\ arg' = msg[h].text[1]
    /\ panicked' = FALSE
    /\ pc' = [pc EXCEPT ![h] = "should_reply_to"]
    /\ UNCHANGED <<bsearch, rebuilt, behavior, call, draws>>
    /\ UNCHANGED <<platform_vars, msg, response, context_lock, borg_lock, respond_body>>
    /\ UNCHANGED startup

\* borg.should_reply_to(user_id, input, &behavior)
HandleShouldReplyTo(h, rolls) ==
    /\ pc[h] = "should_reply_to"
    /\ LET c == CallOf(h)
           r == should_reply_to(behavior, c.user_id, c.input, c.override, rolls)
       IN  /\ call' = c
           /\ ret' = r.ret
           /\ panicked' = r.panicked
           /\ draws' = SubSeq(rolls, 1, r.used)
           /\ IF r.panicked THEN Unwind(h)
              ELSE /\ pc' = [pc EXCEPT ![h] = IF r.ret THEN "respond_to" ELSE "return"]
                   /\ UNCHANGED <<context_lock, borg_lock>>
    /\ op' = "should_reply_to"
    /\ UNCHANGED <<dict_vars, behavior, arg>>
    /\ UNCHANGED <<platform_vars, msg, response, respond_body>>
    /\ UNCHANGED startup

\* if let Some(response) = borg.respond_to(input)
HandleRespondTo(h, rolls) ==
    /\ pc[h] = "respond_to"
    /\ LET r == IF respond_body = "todo"
                THEN respond_to(sentences, indices, msg[h].text[1])
                ELSE respond_to_described(sentences, indices, msg[h].text[1],
                                          rolls[1], rolls[2])
       IN  /\ ret' = r.ret
           /\ panicked' = r.panicked
           /\ draws' = SubSeq(rolls, 1, r.used)
           /\ IF r.panicked THEN Unwind(h) /\ UNCHANGED response
              ELSE /\ pc' = [pc EXCEPT ![h] = IF r.ret = None THEN "return" ELSE "send"]
                   /\ response' = [response EXCEPT ![h] = r.ret]
                   /\ UNCHANGED <<context_lock, borg_lock>>
    /\ op' = "respond_to"
    /\ arg' = msg[h].text[1]
    /\ UNCHANGED <<dict_vars, behavior, call>>
    /\ UNCHANGED <<platform_vars, msg, respond_body>>
    /\ UNCHANGED startup

\* context.api.execute(SendMessage::new(chat_id, response)) is called: the
\* request goes out and the handler awaits its result
HandleSend(h) ==
    /\ pc[h] = "send"
    /\ pc' = [pc EXCEPT ![h] = "sending"]
    /\ UNCHANGED <<dict_vars, behavior, op, arg, call, ret, panicked, draws>>
    /\ UNCHANGED <<platform_vars, msg, response, context_lock, borg_lock, respond_body>>
    /\ UNCHANGED startup

\* .await of the send is over, with Ok or with an Err that is logged
HandleSent(h) ==
    /\ pc[h] = "sending"
    /\ pc' = [pc EXCEPT ![h] = "return"]
    /\ UNCHANGED <<dict_vars, behavior, op, arg, call, ret, panicked, draws>>
    /\ UNCHANGED <<platform_vars, msg, response, context_lock, borg_lock, respond_body>>
    /\ UNCHANGED startup

\* the end of the blocks: the borg guard and then the context guard are
\* dropped, and HandlerResult::Continue is returned
HandleReturn(h) ==
    /\ pc[h] = "return"
    /\ pc' = [pc EXCEPT ![h] = "idle"]
    /\ borg_lock' = borg_lock \ {h}
    /\ context_lock' = context_lock \ {h}
    /\ UNCHANGED <<dict_vars, behavior, op, arg, call, ret, panicked, draws>>
    /\ UNCHANGED <<platform_vars, msg, response, respond_body>>
    /\ UNCHANGED startup

\* main: the Borg and the Context are built, telegram::run starts
InitHandle ==
    /\ sentences = <<>>
    /\ indices = EmptyIndices
    /\ bsearch \in {"halving", "threeway"}
    /\ rebuilt = FALSE
    /\ behavior \in HandleBehaviors
    /\ op = "new"
    /\ arg = ""
    /\ call = NoCall
    /\ ret = FALSE
    /\ panicked = FALSE
    /\ draws = <<>>
    /\ platform_config \in HandlePlatformConfigs
    /\ resolved = None
    /\ pc = [h \in Handlers |-> "idle"]
    /\ msg = [h \in Handlers |-> NoMessage]
    /\ response = [h \in Handlers |-> None]
    /\ context_lock = {}
    /\ borg_lock = {}
    /\ respond_body \in {"todo", "described"}
    /\ startup = NoMain

NextHandle ==
    \E h \in Handlers :
        \/ \E m \in Messages : Receive(h, m)
        \/ HandleLockContext(h)
        \/ HandleCheck(h)
        \/ HandleLockBorg(h)
        \/ HandleShouldLearn(h)
        \/ HandleLearn(h)
        \/ \E rolls \in [1..3 -> RandomValues] : HandleShouldReplyTo(h, rolls)
        \/ \E rolls \in [1..2 -> RandomValues] : HandleRespondTo(h, rolls)
        \/ HandleSend(h)
        \/ HandleSent(h)
        \/ HandleReturn(h)

SpecHandle == InitHandle /\ [][NextHandle]_vars

-----------------------------------------------------------------------------
(* A dictionary read from disk: Dictionary::load deserializes whatever the  *)
(* file holds, so the sentences need not be sorted or lower-cased and the   *)
(* index need not match them.                                               *)

RECURSIVE SeqsUpTo(_, _)
SeqsUpTo(S, n) ==
    IF n = 0 THEN {<<>>}
    ELSE SeqsUpTo(S, n - 1)
         \cup {Append(q, x) : q \in {r \in SeqsUpTo(S, n - 1) : Len(r) = n - 1}, x \in S}

\* the indices of a dictionary file: none, one that may fit, wrong ones
LoadedIndices ==
    { EmptyIndices,
      ("b" :> <<0>>) @@ ("c" :> <<0>>),
      ("zzz" :> <<7, 7>>) @@ ("b" :> <<>>) }

\* Dictionary::load(path) of an existing file
InitLoaded ==
    /\ sentences \in SeqsUpTo(LoadedSentences, MaxLoaded)
    /\ indices \in LoadedIndices
    /\ bsearch \in {"halving", "threeway"}
    /\ rebuilt = FALSE
    /\ op = "load"
    /\ arg = ""
    /\ ret = FALSE
    /\ behavior = DefaultBehavior
    /\ call = NoCall
    /\ panicked = FALSE
    /\ draws = <<>>
    /\ NoPlatform
    /\ NoHandler

NextLoaded ==
    \/ RebuildIndices
    \/ NeedsToBuildIndices

SpecLoaded == InitLoaded /\ [][NextLoaded]_vars

-----------------------------------------------------------------------------
(* Startup (src/src/main.rs, main), from the loaded dictionary on *)

\* main after save_dictionary returned Err and did not go on
after_save_fatal(ok) == IF ok THEN "new_borg" ELSE "exited"

\* main after save_dictionary: an Err is logged, and main goes on
after_save(ok) == "new_borg"

\* if dict.needs_to_build_indices()
MainNeedsToBuild ==
    /\ startup.pc = "loaded"
    /\ LET needed == needs_to_build_indices(sentences, indices)
       IN  /\ ret' = needed
           /\ startup' = [startup EXCEPT !.needed = needed,
                                         !.pc = IF needed THEN "rebuild" ELSE "new_borg"]
    /\ op' = "needs_to_build_indices"
    /\ arg' = ""
    /\ panicked' = FALSE
    /\ UNCHANGED <<dict_vars, behavior, call, draws, platform_vars, handle_vars>>

\* dict.rebuild_indices()
MainRebuild ==
    /\ startup.pc = "rebuild"
    /\ LET d == rebuild_indices(sentences, indices)
       IN  /\ sentences' = d.sentences
           /\ indices' = d.indices
    /\ rebuilt' = TRUE
    /\ op' = "rebuild_indices"
    /\ arg' = ""
    /\ ret' = FALSE
    /\ panicked' = FALSE
    /\ startup' = [startup EXCEPT !.pc = "save"]
    /\ UNCHANGED <<bsearch, behavior, call, draws, platform_vars, handle_vars>>

\* if let Err(e) = save_dictionary(&config, &dict): write_to_disk succeeds
\* or fails
MainSave(ok) ==
    /\ startup.pc = "save"
    /\ startup' = [startup EXCEPT !.saved = IF ok THEN "ok" ELSE "failed",
                                  !.pc = after_save(ok)]
    /\ op' = "save_dictionary"
    /\ arg' = ""
    /\ ret' = ok
    /\ panicked' = FALSE
    /\ UNCHANGED <<dict_vars, behavior, call, draws, platform_vars, handle_vars>>

\* Arc::new(Mutex::new(Borg::new(dict, config.behavior)))
MainNewBorg ==
    /\ startup.pc = "new_borg"
    /\ startup' = [startup EXCEPT
                       !.borg = Some([sentences |-> sentences, indices |-> indices]),
                       !.pc = "telegram"]
    /\ op' = "new"
    /\ arg' = ""
    /\ ret' = FALSE
    /\ panicked' = FALSE
    /\ UNCHANGED <<dict_vars, behavior, call, draws, platform_vars, handle_vars>>

\* config.telegram is None: no task, join_all returns; Context::new fails:
\* the error is logged and main returns; else the telegram task is started
MainTelegram(telegram) ==
    /\ startup.pc = "telegram"
    /\ startup' = [startup EXCEPT
                       !.telegram = telegram,
                       !.tasks = (telegram = "ok"),
                       !.pc = CASE telegram = "none" -> "joined"
                                [] telegram = "error" -> "exited"
                                [] OTHER -> "running"]
    /\ op' = "telegram"
    /\ arg' = ""
    /\ ret' = (telegram = "ok")
    /\ panicked' = FALSE
    /\ UNCHANGED <<dict_vars, behavior, call, draws, platform_vars, handle_vars>>

\* Dictionary::load(path) returned Ok(d)
InitMain ==
    /\ sentences \in SeqsUpTo(LoadedSentences, MaxLoaded)
    /\ indices \in LoadedIndices
    /\ bsearch \in {"halving", "threeway"}
    /\ rebuilt = FALSE
    /\ op = "load"
    /\ arg = ""
    /\ ret = FALSE
    /\ behavior = DefaultBehavior
    /\ call = NoCall
    /\ panicked = FALSE
    /\ draws = <<>>
    /\ NoPlatform
    /\ pc = [h \in Handlers |-> "idle"]
    /\ msg = [h \in Handlers |-> NoMessage]
    /\ response = [h \in Handlers |-> None]
    /\ context_lock = {}
    /\ borg_lock = {}
    /\ respond_body = "todo"
    /\ startup = [NoMain EXCEPT !.pc = "loaded"]

NextMain ==
    \/ MainNeedsToBuild
    \/ MainRebuild
    \/ \E ok \in BOOLEAN : MainSave(ok)
    \/ MainNewBorg
    \/ \E telegram \in {"none", "error", "ok"} : MainTelegram(telegram)

SpecMain == InitMain /\ [][NextMain]_vars

-----------------------------------------------------------------------------
(* What the claims speak of *)

\* the words of s: the maximal runs of lower(s) that hold no separator
TokensOf(s) ==
    LET ls == to_lowercase(s)
        n  == Len(ls)
        IsSep(k) == IsWordSeparator(Char(ls, k))
        Starts == {i \in 1..n : ~IsSep(i) /\ (i = 1 \/ IsSep(i - 1))}
        EndOf(i) == CHOOSE j \in i..n :
                        /\ \A k \in i..j : ~IsSep(k)
                        /\ (j = n \/ IsSep(j + 1))
    IN  {SubSeq(ls, i, EndOf(i)) : i \in Starts}

NoDuplicates(q) == \A i, j \in DOMAIN q : i # j => q[i] # q[j]

\* position i is in idx[w] exactly when w is a word of ss[i]; no list is
\* empty or holds a position twice
IndexConsistent(ss, idx) ==
    /\ \A w \in DOMAIN idx :
          /\ idx[w] # <<>>
          /\ NoDuplicates(idx[w])
          /\ \A k \in DOMAIN idx[w] :
                /\ idx[w][k] \in 0..(Len(ss) - 1)
                /\ w \in TokensOf(ss[idx[w][k] + 1])
    /\ \A i \in DOMAIN ss :
          \A w \in TokensOf(ss[i]) : w \in DOMAIN idx /\ (i - 1) \in Range(idx[w])

\* ascending in the case-insensitive order
SortedCaseInsensitive(ss) ==
    \A i \in 1..(Len(ss) - 1) :
        cmp(to_lowercase(ss[i]), to_lowercase(ss[i + 1])) # "Greater"

RECURSIVE IsSubsequence(_, _)
IsSubsequence(a, b) ==
    IF a = <<>> THEN TRUE
    ELSE IF b = <<>> THEN FALSE
    ELSE IF Head(a) = Head(b) THEN IsSubsequence(Tail(a), Tail(b))
    ELSE IsSubsequence(a, Tail(b))

StrictlyAscending(q) == \A i, j \in DOMAIN q : i < j => q[i] < q[j]

-----------------------------------------------------------------------------
(* Claims *)

\* C1: in every state reachable from the empty dictionary by learn and
\* rebuild_indices, no sentence (compared case-insensitively) is stored at two
\* different positions of sentences.
C1_NoSentenceStoredTwice ==
    \A i, j \in DOMAIN sentences :
        i # j => to_lowercase(sentences[i]) # to_lowercase(sentences[j])

\* C2: after rebuild_indices() on any dictionary, whatever its sentences and
\* its prior index, position i is in indices[w] exactly when w is a word of
\* sentences[i], and no word maps to an empty or duplicated position list.
C2_RebuildMakesIndexConsistent ==
    op = "rebuild_indices" => IndexConsistent(sentences, indices)

C2_Witness ==
    /\ op = "rebuild_indices"
    /\ Len(sentences) >= 2
    /\ \E i \in DOMAIN sentences : sentences[i] # to_lowercase(sentences[i])
    /\ \E w \in DOMAIN indices : Len(indices[w]) >= 2

\* C3: after rebuild_indices() on any dictionary, sentences is sorted in
\* ascending case-insensitive order.
C3_RebuildSortsSentences ==
    op = "rebuild_indices" => SortedCaseInsensitive(sentences)

C3_Witness ==
    /\ op = "rebuild_indices"
    /\ \E i \in 1..(Len(sentences) - 1) :
          sentences[i] = "a b!" /\ sentences[i + 1] = "B c."

\* C4: in every state reachable from the empty dictionary by learn and
\* rebuild_indices, the index is exactly consistent with the sentences.
C4_IndexAlwaysConsistent == IndexConsistent(sentences, indices)

C4_Witness ==
    /\ op = "learn"
    /\ rebuilt
    /\ ret = TRUE
    /\ Len(sentences) >= 3
    /\ \E w \in DOMAIN indices : Len(indices[w]) >= 2

\* C5: once rebuild_indices() has been called, sentences is sorted
\* case-insensitively in every later state, also after later learn calls.
C5_SortedOnceRebuilt == rebuilt => SortedCaseInsensitive(sentences)

\* C6: learn(line) appends every sentence of the lower-cased line that is not
\* yet stored at the end of sentences, in the order of the line, leaves the
\* position of every stored sentence unchanged, and changes the index only by
\* adding each new position once to the list of each word of its sentence.
LearnAppends ==
    LET n       == Len(sentences)
        added   == SubSeq(sentences', n + 1, Len(sentences'))
        of_line == split_sentences(to_lowercase(arg'))
        old(w)  == IF w \in DOMAIN indices THEN indices[w] ELSE <<>>
        new(w)  == SubSeq(indices'[w], Len(old(w)) + 1, Len(indices'[w]))
    IN  /\ Len(sentences') >= n
        /\ SubSeq(sentences', 1, n) = sentences
        /\ IsSubsequence(added, of_line)
        /\ \A s \in Range(of_line) : s \notin Range(sentences) => s \in Range(added)
        /\ ret' = (added # <<>>)
        /\ DOMAIN indices \subseteq DOMAIN indices'
        /\ \A w \in DOMAIN indices' :
              /\ SubSeq(indices'[w], 1, Len(old(w))) = old(w)
              /\ StrictlyAscending(new(w))
              /\ Range(new(w)) =
                    {p \in n..(Len(sentences') - 1) : w \in TokensOf(sentences'[p + 1])}
              /\ (w \notin DOMAIN indices => new(w) # <<>>)

C6_LearnIsIncrementalAppend == [][op' = "learn" => LearnAppends]_vars

C6_Witness ==
    /\ op = "learn"
    /\ arg = "B. a a!"
    /\ ret = TRUE
    /\ Len(sentences) >= 3
    /\ sentences[Len(sentences)] = "a a!"
    /\ sentences[Len(sentences) - 1] = "b."

\* C7: from the empty dictionary, learn("Hello world! I love pizza.") followed
\* by learn("I love cake.") leaves the sentences sorted, "hello world!",
\* "i love cake.", "i love pizza.", with love and i at [1,2], hello and world
\* at [0], cake at [1] and pizza at [2].
AfterFirstLearn ==
    /\ ~rebuilt
    /\ op = "learn"
    /\ arg = "Hello world! I love pizza."
    /\ Len(sentences) = 2

C7_ScenarioResult ==
    [][(AfterFirstLearn /\ op' = "learn" /\ arg' = "I love cake.") =>
          /\ sentences' = <<"hello world!", "i love cake.", "i love pizza.">>
          /\ indices' = ("love" :> <<1, 2>>) @@ ("i" :> <<1, 2>>)
                        @@ ("hello" :> <<0>>) @@ ("world" :> <<0>>)
                        @@ ("cake" :> <<1>>) @@ ("pizza" :> <<2>>)]_vars

\* C8: needs_to_build_indices() returns true exactly when there are sentences
\* and the index has no entry: false for an empty dictionary and for any
\* index that holds a word, whatever it holds.
C8_NeedsToBuildIndices ==
    op = "needs_to_build_indices" =>
        /\ ret = (sentences # <<>> /\ DOMAIN indices = {})
        /\ (sentences = <<>> => ret = FALSE)
        /\ (DOMAIN indices # {} => ret = FALSE)

C8_Witness ==
    /\ op = "needs_to_build_indices"
    /\ ret = TRUE
    /\ sentences # <<>>

\* input matches pattern p: p is a regular expression and occurs in input
Matches(p, input) == RegexIsValid(p.original) /\ is_match(p.original, input)

MatchesSome(input, patterns) == \E k \in DOMAIN patterns : Matches(patterns[k], input)

\* the lists in effect for the last call of the Borg
EffectiveIgnoredUsers == ignored_users(ValueResolver(behavior, call.override))
EffectiveBlacklist == blacklisted_patterns(ValueResolver(behavior, call.override))

\* C9: should_learn returns false if user_id matches a pattern of the effective
\* ignored-user list, false if input matches a pattern of the effective
\* blacklist, and true in every other case, whatever speaking, the reply rates
\* and the random source are.
C9_ShouldLearnResult ==
    op = "should_learn" =>
        /\ ~panicked
        /\ ret = ~(\/ MatchesSome(call.user_id, EffectiveIgnoredUsers)
                   \/ MatchesSome(call.input, EffectiveBlacklist))

\* what holds of should_learn in the calls that return
ShouldLearnResultIfReturned ==
    (op = "should_learn" /\ ~panicked) =>
        /\ ret = ~(\/ MatchesSome(call.user_id, EffectiveIgnoredUsers)
                   \/ MatchesSome(call.input, EffectiveBlacklist))
        /\ draws = <<>>

\* C10: if user_id matches a pattern of the effective ignored-user list,
\* should_reply_to returns true, also when speaking is false and whatever the
\* reply rates and the random source are.
C10_IgnoredUserIsAnswered ==
    (op = "should_reply_to" /\ MatchesSome(call.user_id, EffectiveIgnoredUsers)) =>
        (~panicked /\ ret = TRUE)

\* what holds of should_reply_to for an ignored user in the calls that return
IgnoredUserIsAnsweredIfReturned ==
    (/\ op = "should_reply_to"
     /\ ~panicked
     /\ MatchesSome(call.user_id, EffectiveIgnoredUsers)) => ret = TRUE

\* the values in effect for the last call of the Borg
EffectiveSpeaking == is_speaking(ValueResolver(behavior, call.override))
EffectiveNickPatterns == nick_patterns(ValueResolver(behavior, call.override))
EffectiveMagicPatterns == magic_patterns(ValueResolver(behavior, call.override))
EffectiveReplyNick == reply_nick(ValueResolver(behavior, call.override))
EffectiveReplyMagic == reply_magic(ValueResolver(behavior, call.override))
EffectiveReplyRate == reply_rate(ValueResolver(behavior, call.override))

\* the last call of should_reply_to was for a user that is not ignored, with
\* speaking on
RepliesByChance ==
    /\ op = "should_reply_to"
    /\ ~MatchesSome(call.user_id, EffectiveIgnoredUsers)
    /\ EffectiveSpeaking

\* C11: if the effective speaking value is false and user_id matches no
\* ignored-user pattern, should_reply_to returns false, whatever the input, the
\* nick and magic patterns and the random source are.
C11_SpeakingGate ==
    (/\ op = "should_reply_to"
     /\ ~EffectiveSpeaking
     /\ ~MatchesSome(call.user_id, EffectiveIgnoredUsers)) =>
        (~panicked /\ ret = FALSE)

\* what holds of the speaking gate in the calls that return
SpeakingGateIfReturned ==
    (/\ op = "should_reply_to"
     /\ ~panicked
     /\ ~EffectiveSpeaking
     /\ ~MatchesSome(call.user_id, EffectiveIgnoredUsers)) =>
        (ret = FALSE /\ draws = <<>>)

\* a draw against probability p with the random value v succeeds
DrawSucceeds(p, v) == (v % 100) > p

\* the result the nick, magic and reply-rate steps give, in that order, on the
\* random values drawn
ResultOfDraws ==
    LET nickM   == MatchesSome(call.input, EffectiveNickPatterns)
        magicM  == MatchesSome(call.input, EffectiveMagicPatterns)
        n1      == IF nickM THEN 1 ELSE 0
        n2      == n1 + (IF magicM THEN 1 ELSE 0)
        nickOK  == /\ nickM
                   /\ Len(draws) >= 1
                   /\ DrawSucceeds(EffectiveReplyNick, draws[1])
        magicOK == /\ ~nickOK
                   /\ magicM
                   /\ Len(draws) >= n2
                   /\ DrawSucceeds(EffectiveReplyMagic, draws[n2])
        rateOK  == /\ ~nickOK
                   /\ ~magicOK
                   /\ Len(draws) >= n2 + 1
                   /\ DrawSucceeds(EffectiveReplyRate, draws[n2 + 1])
    IN  nickOK \/ magicOK \/ rateOK

\* C12: for a user that is not ignored, with speaking on, should_reply_to
\* tries the nick step, then the magic step, then the reply rate; a failed nick
\* or magic draw falls through to the next step, and the result is true exactly
\* when one of the steps reached succeeds.
C12_DrawOrder == RepliesByChance => (~panicked /\ ret = ResultOfDraws)

\* what holds of the order of the draws in the calls that return
DrawOrderIfReturned == (RepliesByChance /\ ~panicked) => ret = ResultOfDraws

\* C13: a draw against p with the random value v succeeds exactly when
\* v mod 100 > p, so never for p = 100; with reply_rate = 0, no nick or magic
\* match, a user that is not ignored and speaking on, should_reply_to draws
\* once and returns true exactly when v mod 100 is in 1..99.
C13_DrawSucceedsAboveP ==
    /\ \A p \in {0, 40, 99, 100}, v \in RandomValues \cup 0..200 :
          /\ chance(p, v) = ((v % 100) > p)
          /\ (p = 100 => ~chance(p, v))
    /\ (/\ RepliesByChance
        /\ EffectiveReplyRate = 0
        /\ ~MatchesSome(call.input, EffectiveNickPatterns)
        /\ ~MatchesSome(call.input, EffectiveMagicPatterns)) =>
          /\ ~panicked
          /\ Len(draws) = 1
          /\ ret = ((draws[1] % 100) \in 1..99)

\* what holds of a single draw against reply_rate = 0 in the calls that return
DrawSucceedsAbovePIfReturned ==
    (/\ RepliesByChance
     /\ ~panicked
     /\ EffectiveReplyRate = 0
     /\ ~MatchesSome(call.input, EffectiveNickPatterns)
     /\ ~MatchesSome(call.input, EffectiveMagicPatterns)) =>
        /\ Len(draws) = 1
        /\ ret = ((draws[1] % 100) \in 1..99)

\* the nine configurable values
Fields == {"speaking", "learning", "reply_rate", "reply_nick", "reply_magic",
           "nick_patterns", "magic_patterns", "blacklisted_patterns",
           "ignored_users"}

\* the last operation built a resolver and asked it for the nine values
Resolved == op \in {"resolve", "resolve_for_chat"}

\* no layer of the chain sets a field
RECURSIVE AllUnset(_)
AllUnset(o) ==
    o = None \/ (o[1].behavior = NoOverride /\ AllUnset(o[1].override_))

\* the number of layers of a chain
RECURSIVE Depth(_)
Depth(o) == IF o = None THEN 0 ELSE 1 + Depth(o[1].override_)

\* the value of field f in the first layer that sets it, the innermost layer
\* (the per-chat override) first; None if no layer sets it
RECURSIVE FirstSet(_, _)
FirstSet(o, f) ==
    IF o = None THEN None
    ELSE LET inner == FirstSet(o[1].override_, f)
         IN  IF inner # None THEN inner ELSE o[1].behavior[f]

\* C14: when no override is supplied, or every field of every layer of the
\* chain is unset, each of the nine accessors returns the base policy's value.
C14_UnsetChainGivesBase ==
    (Resolved /\ AllUnset(call.override)) =>
        \A f \in Fields : resolved[f] = behavior[f]

C14_Witness ==
    /\ Resolved
    /\ Depth(call.override) >= 2
    /\ AllUnset(call.override)
    /\ behavior.speaking # behavior.learning
    /\ resolved.nick_patterns # <<>>

\* C15: each of the nine values is the value of the first layer that sets the
\* field, the per-chat override first, then the platform override; the base
\* policy's value if no layer sets it.
C15_FirstSetLayerWins ==
    Resolved =>
        \A f \in Fields :
            resolved[f] = (IF FirstSet(call.override, f) # None
                           THEN FirstSet(call.override, f)[1]
                           ELSE behavior[f])

\* C16: no call of should_learn or should_reply_to ends in a panic because of
\* a pattern: a pattern without compiled form (never compiled, or not a
\* regular expression) is reported to the caller as an error.
C16_NoPanicOnPattern ==
    op \in {"should_learn", "should_reply_to"} => ~panicked

\* C17: respond_to(line) on a line none of whose words is a key of the index,
\* the empty dictionary included, returns None; it does not panic.
C17_NoKnownWordGivesNone ==
    (op = "respond_to" /\ TokensOf(arg) \cap DOMAIN indices = {}) =>
        (~panicked /\ ret = None)

\* the borg guard is alive from before the first call of the Borg until
\* after the last
InEngine == {"should_learn", "learn", "should_reply_to", "respond_to"}

\* C18: the calls of the Borg for one message (should_learn, learn,
\* should_reply_to, respond_to) are never interleaved with those for another:
\* at most one handler holds the borg lock, and a handler holds it from its
\* first call of the Borg to its last.
C18_EngineStepsNotInterleaved ==
    /\ Cardinality(borg_lock) <= 1
    /\ \A h \in Handlers : pc[h] \in InEngine => h \in borg_lock
    /\ \A h, g \in Handlers :
          (h # g /\ pc[h] \in InEngine) => pc[g] \notin InEngine

C18_Witness ==
    /\ pc[1] = "respond_to"
    /\ pc[2] = "lock_context"
    /\ op = "should_reply_to"
    /\ ret = TRUE
    /\ Len(sentences) >= 2

CompileStep ==
    \E f \in PatternFields : \E i \in DOMAIN behavior[f] :
        LET p == behavior[f][i]
            q == behavior'[f][i]
        IN  /\ behavior' = [behavior EXCEPT ![f][i] = q]
            /\ call'.input = p.original
            /\ arg' = get_regex(p)
            /\ q.original = p.original
            /\ (get_regex(p) = "Ok" => (q = p /\ ret' = TRUE))
            /\ (ret' = TRUE) = (get_regex(q) = "Ok")
            /\ (get_regex(p) = "NotCompiledError" =>
                    (ret' = TRUE) = RegexIsValid(p.original))
            /\ (ret' = FALSE => q = p)

\* C20: compile() is memoized and idempotent: once it has succeeded the
\* compiled form is present and a later compile() returns it without changing
\* the pattern; when it fails it returns a CompilationError and the compiled
\* form stays absent, so that get_regex() still gives NotCompiledError;
\* original is never modified.
C20_CompileIsMemoized == [][op' = "compile" => CompileStep]_vars

C20_Witness ==
    /\ op = "compile"
    /\ arg = "Ok"
    /\ ret = TRUE
    /\ \E f \in PatternFields : \E i \in DOMAIN behavior[f] :
          /\ behavior[f][i].original = "("
          /\ get_regex(behavior[f][i]) = "NotCompiledError"

\* a draw alone: chance(p, v) is v mod 100 > p, and never true for p = 100
ChanceIsAboveP ==
    \A p \in {0, 40, 99, 100}, v \in RandomValues \cup 0..200 :
        /\ chance(p, v) = ((v % 100) > p)
        /\ (p = 100 => ~chance(p, v))

\* C21: at startup a loaded dictionary with sentences and an empty index is
\* rebuilt before the Borg is created; a failure to save the rebuilt
\* dictionary is only logged: the Borg is still created, with the rebuilt
\* dictionary, and main goes on to start the platform tasks.
C21_StartupRebuildsAndGoesOn ==
    /\ (startup.needed /\ startup.borg # None) =>
          /\ rebuilt
          /\ startup.saved # "none"
          /\ startup.borg[1] = [sentences |-> sentences, indices |-> indices]
          /\ SortedCaseInsensitive(sentences)
          /\ IndexConsistent(sentences, indices)
    /\ (startup.pc \in {"telegram", "running", "joined", "exited"}) =>
          startup.borg # None
    /\ startup.pc = "exited" => startup.telegram = "error"
    /\ startup.tasks = (startup.telegram = "ok")
    /\ (startup.pc = "rebuild") = (startup.needed /\ ~rebuilt)
    /\ (startup.pc # "loaded" /\ ~rebuilt) =>
          startup.needed = (sentences # <<>> /\ DOMAIN indices = {})

C21_Witness ==
    /\ startup.needed
    /\ startup.saved = "failed"
    /\ startup.pc = "running"
    /\ startup.tasks
    /\ Len(sentences) >= 2

\* the number of random values should_reply_to is to take: none for an
\* ignored user or with speaking off; else one for the nick step if input
\* matches a nick pattern, one for the magic step if it is reached and input
\* matches a magic pattern, and one for the reply rate if it is reached
DrawsToTake ==
    LET nickM   == MatchesSome(call.input, EffectiveNickPatterns)
        magicM  == MatchesSome(call.input, EffectiveMagicPatterns)
        n1      == IF nickM THEN 1 ELSE 0
        n2      == n1 + (IF magicM THEN 1 ELSE 0)
        nickOK  == /\ nickM
                   /\ Len(draws) >= 1
                   /\ DrawSucceeds(EffectiveReplyNick, draws[1])
        magicOK == /\ magicM
                   /\ Len(draws) >= n2
                   /\ DrawSucceeds(EffectiveReplyMagic, draws[n2])
    IN  IF MatchesSome(call.user_id, EffectiveIgnoredUsers) \/ ~EffectiveSpeaking
        THEN 0
        ELSE IF nickOK THEN 1
        ELSE IF magicOK THEN n2
        ELSE n2 + 1

\* C22: should_reply_to takes exactly one value from the random source for
\* each draw step it reaches and none otherwise: none for an ignored user or
\* with speaking off, else between one and three; should_learn takes none.
C22_RandomValuesConsumed ==
    /\ op = "should_learn" => draws = <<>>
    /\ op = "should_reply_to" => Len(draws) = DrawsToTake
    /\ RepliesByChance => Len(draws) \in 1..3

\* what holds of the random values taken in the calls that return
RandomValuesConsumedIfReturned ==
    (op \in {"should_learn", "should_reply_to"} /\ ~panicked) =>
        /\ op = "should_learn" => draws = <<>>
        /\ op = "should_reply_to" => Len(draws) = DrawsToTake
        /\ RepliesByChance => Len(draws) \in 1..3

\* how often s is stored in q
Count(q, s) == Cardinality({i \in DOMAIN q : q[i] = s})

\* a step loses no sentence: each sentence is stored at least as often as
\* before; learn leaves the stored sentences where they are; rebuild_indices
\* stores each sentence as often as before; and only rebuild_indices moves a
\* stored sentence
LosesNoSentence ==
    /\ \A s \in Range(sentences) : Count(sentences', s) >= Count(sentences, s)
    /\ op' = "learn" => SubSeq(sentences', 1, Len(sentences)) = sentences
    /\ op' = "rebuild_indices" =>
          /\ Len(sentences') = Len(sentences)
          /\ \A s \in Range(sentences') : Count(sentences', s) = Count(sentences, s)
    /\ (\E i \in DOMAIN sentences : i \notin DOMAIN sentences' \/ sentences'[i] # sentences[i])
          => op' = "rebuild_indices"

\* C23: no sentence is ever lost: over learn and rebuild_indices the multiset
\* of stored sentences only grows; learn never removes or moves a stored
\* sentence; rebuild_indices only permutes the sentences and is the only
\* operation that moves one.
C23_NoSentenceLost == [][LosesNoSentence]_vars

C23_Witness ==
    /\ op = "rebuild_indices"
    /\ Len(sentences) >= 3
    /\ \E i, j \in DOMAIN sentences : i < j /\ sentences[i] = sentences[j]
    /\ sentences[1] = "a a!"

\* C24: from the empty dictionary, every position in an index list is smaller
\* than the number of sentences, so sentences_with_word(word) reads no
\* position outside sentences and returns the sentences at the positions of
\* indices[word], in that order; the empty list for an unknown word.
C24_PositionsInRange ==
    /\ \A w \in DOMAIN indices : \A k \in DOMAIN indices[w] :
          indices[w][k] \in 0..(Len(sentences) - 1)
    /\ op = "sentences_with_word" =>
          /\ ~panicked
          /\ arg \notin DOMAIN indices => ret = <<>>
          /\ arg \in DOMAIN indices =>
                /\ Len(ret) = Len(indices[arg])
                /\ \A k \in DOMAIN ret :
                      /\ ret[k] = sentences[indices[arg][k] + 1]
                      /\ arg \in TokensOf(ret[k])

C24_Witness ==
    /\ op = "sentences_with_word"
    /\ rebuilt
    /\ Len(ret) >= 2
    /\ ret[1] # ret[2]

\* C25: needs_to_build_indices() returns false in every state reached from
\* the empty dictionary by learn and rebuild_indices, also when a stored
\* sentence has no word token.
C25_NeverNeedsRebuild ==
    op = "needs_to_build_indices" => ret = FALSE

\* needs_to_build_indices() returns false once a sentence with a word token
\* is stored
NeedsRebuildOnlyWithoutTokens ==
    (op = "needs_to_build_indices" /\ \E i \in DOMAIN sentences : TokensOf(sentences[i]) # {})
        => ret = FALSE

\* the chain o with the speaking field of every layer left unset
RECURSIVE WithoutSpeaking(_)
WithoutSpeaking(o) ==
    IF o = None THEN None
    ELSE Some([o[1] EXCEPT !.behavior = [@ EXCEPT !.speaking = None],
                           !.override_ = WithoutSpeaking(@)])

\* C26: is_learning() is the first set learning field of the override chain,
\* else the base policy's learning; it is the same for a configuration that
\* differs only in the speaking fields.
C26_LearningIgnoresSpeaking ==
    Resolved =>
        /\ resolved.learning = (IF FirstSet(call.override, "learning") # None
                                THEN FirstSet(call.override, "learning")[1]
                                ELSE behavior.learning)
        /\ resolved.learning =
              is_learning(ValueResolver([behavior EXCEPT !.speaking = ~@],
                                        WithoutSpeaking(call.override)))

\* is_learning() is the value is_speaking() has in the chain, else the base
\* policy's learning
LearningIsChainSpeaking ==
    Resolved =>
        resolved.learning =
            (IF call.override # None /\ override_is_speaking(call.override[1]) # None
             THEN override_is_speaking(call.override[1])[1]
             ELSE behavior.learning)

\* the per-chat override configured for the chat of the last resolve_for_chat
ChatOverride == override_for_chat(platform_config, call.input)

\* a field that the per-chat override sets has that value
FieldOfChatOverrideIsEffective(f) ==
    (ChatOverride # None /\ ChatOverride[1][f] # None) =>
        resolved[f] = ChatOverride[1][f][1]

\* C27: the fields set in the override listed for the message's chat id are
\* the effective values, with or without a platform-level override; a chat
\* whose id matches no entry gets no per-chat layer.
C27_ChatOverrideIsEffective ==
    op = "resolve_for_chat" =>
        /\ \A f \in Fields : FieldOfChatOverrideIsEffective(f)
        /\ ChatOverride = None =>
              (call.override = None \/ call.override[1].override_ = None)

\* with a platform-level override configured, the fields other than learning
\* set in the chat's override are the effective values
ChatOverrideIsEffectiveUnderPlatformOverride ==
    (op = "resolve_for_chat" /\ platform_config.behavior # None) =>
        /\ \A f \in Fields \ {"learning"} : FieldOfChatOverrideIsEffective(f)
        /\ ChatOverride = None => call.override[1].override_ = None

====
